---- MODULE Spec2Model ----
(***************************************************************************)
(* The RPN calculator of src/lib.rs: RPNParser with its stack, its         *)
(* variable map and the operations parse, push, pop, peek, clear, add,     *)
(* subtract, multiply, divide, exponent, exchange, stack_dump, var_dump.   *)
(*                                                                         *)
(* A Rust String is a sequence of one-character strings, so that           *)
(* str::parse, to_string, split_whitespace and to_lowercase are computed   *)
(* character by character.  isize is a two's-complement integer of         *)
(* IsizeBits bits and u32 an unsigned integer of U32Bits bits.             *)
(***************************************************************************)
EXTENDS Integers, Sequences, FiniteSets, TLC

VARIABLES stack, vars, last, calls, overflow_checks

allvars == <<stack, vars, last, calls, overflow_checks>>

\* ------------------------------------------------------------ bounds
\* Width of the modelled isize.
IsizeBits == 14
\* Width of the modelled u32 (narrower than isize, as on a 64-bit target).
U32Bits == 7
\* Number of calls on one RPNParser instance.
MaxCalls == 2

IsizeMin == -(2 ^ (IsizeBits - 1))
IsizeMax == (2 ^ (IsizeBits - 1)) - 1
U32Max == (2 ^ U32Bits) - 1

\* ------------------------------------------------------------ integers and text
Digits == <<"0", "1", "2", "3", "4", "5", "6", "7", "8", "9">>

IsDigit(c) == \E d \in 1..10 : Digits[d] = c

DigitVal(c) == (CHOOSE d \in 1..10 : Digits[d] = c) - 1

RECURSIVE DecimalOf(_)
DecimalOf(n) ==
    IF n < 10 THEN <<Digits[n + 1]>>
    ELSE Append(DecimalOf(n \div 10), Digits[(n % 10) + 1])

Abs(n) == IF n < 0 THEN -n ELSE n

\* isize::to_string: the canonical decimal text of n.
IntToString(n) == (IF n < 0 THEN <<"-">> ELSE <<>>) \o DecimalOf(Abs(n))

ParseOk(n) == [ok |-> TRUE, val |-> n, kind |-> "none"]

ParseErr(k) == [ok |-> FALSE, val |-> 0, kind |-> k]

\* The digit loop of from_str_radix: the digits are accumulated left to
\* right, upwards for a positive number and downwards for a negative one,
\* and every step is range-checked.
RECURSIVE ParseDigits(_, _, _, _, _, _)
ParseDigits(s, i, acc, positive, lo, hi) ==
    IF i > Len(s) THEN ParseOk(acc)
    ELSE IF ~IsDigit(s[i]) THEN ParseErr("InvalidDigit")
    ELSE IF positive /\ (acc * 10 > hi \/ acc * 10 + DigitVal(s[i]) > hi)
         THEN ParseErr("PosOverflow")
    ELSE IF ~positive /\ (acc * 10 < lo \/ acc * 10 - DigitVal(s[i]) < lo)
         THEN ParseErr("NegOverflow")
    ELSE ParseDigits(s, i + 1,
                     acc * 10 + (IF positive THEN DigitVal(s[i]) ELSE -DigitVal(s[i])),
                     positive, lo, hi)

\* str::parse for an integer type with range lo..hi; signed tells whether a
\* leading '-' is a sign.
ParseInt(s, signed, lo, hi) ==
    IF Len(s) = 0 THEN ParseErr("Empty")
    ELSE IF Len(s) = 1 /\ s[1] \in {"+", "-"} THEN ParseErr("InvalidDigit")
    ELSE ParseDigits(s, IF s[1] = "+" \/ (s[1] = "-" /\ signed) THEN 2 ELSE 1, 0,
                     ~(s[1] = "-" /\ signed), lo, hi)

ParseIsize(s) == ParseInt(s, TRUE, IsizeMin, IsizeMax)

ParseU32(s) == ParseInt(s, FALSE, 0, U32Max)

IsWhitespace(c) == c \in {" ", "\t", "\n"}

\* str::split_whitespace: the maximal runs of non-whitespace characters; cur
\* is the run being read, acc the runs read.
RECURSIVE SplitFrom(_, _, _, _)
SplitFrom(s, i, cur, acc) ==
    IF i > Len(s) THEN acc \o (IF cur = <<>> THEN <<>> ELSE <<cur>>)
    ELSE SplitFrom(s, i + 1,
                   IF IsWhitespace(s[i]) THEN <<>> ELSE Append(cur, s[i]),
                   IF IsWhitespace(s[i]) /\ cur # <<>> THEN Append(acc, cur) ELSE acc)

SplitWhitespace(s) == SplitFrom(s, 1, <<>>, <<>>)

LowerChar(c) == IF c = "X" THEN "x" ELSE IF c = "Q" THEN "q" ELSE c

\* str::to_lowercase.
ToLowercase(s) == [i \in 1..Len(s) |-> LowerChar(s[i])]

\* ------------------------------------------------------------ the RPNParser
\* HashMap::new(): no variable.
EmptyVars == [k \in {} |-> <<>>]

\* The state of one call on an RPNParser: self.stack, self.vars, the lines
\* the call has printed, and how the call ends: status "ok" (Ok), "err" (an
\* Err returned to the caller) or "panic" (the thread panics); kind names the
\* error, text is the token a panic message quotes, val the value returned.
Machine(s, v) ==
    [stack |-> s, vars |-> v, out |-> <<>>, status |-> "ok", kind |-> "none",
     text |-> <<>>, val |-> <<>>]

Fail(m, k) == [m EXCEPT !.status = "err", !.kind = k, !.val = <<>>]

Panic(m, k, t) == [m EXCEPT !.status = "panic", !.kind = k, !.text = t, !.val = <<>>]

\* Ok(()): no value is returned.
Unit(m) == [m EXCEPT !.val = <<>>]

\* One printed line: its label, its text, and for the lines of var_dump the
\* key/value pairs printed (a HashMap is iterated in no particular order).
Line(label, text) == [label |-> label, text |-> text, entries |-> {}]

EmitLine(m, l) == [m EXCEPT !.out = Append(@, l)]

\* RPNParser::push.
push(m, value) == [m EXCEPT !.stack = Append(@, value)]

\* A pop that returns the top of the stack and leaves it on the stack.
pop_keeps(m) ==
    IF Len(m.stack) = 0 THEN Fail(m, "Stack is empty!")
    ELSE [m EXCEPT !.val = m.stack[Len(m.stack)]]

\* A pop that returns the empty string when the stack is empty.
pop_blank_on_empty(m) ==
    IF Len(m.stack) = 0 THEN [m EXCEPT !.val = <<>>]
    ELSE [m EXCEPT !.stack = SubSeq(@, 1, Len(@) - 1), !.val = m.stack[Len(m.stack)]]

\* RPNParser::pop.
pop(m) ==
    IF Len(m.stack) = 0 THEN Fail(m, "Stack is empty!")
    ELSE [m EXCEPT !.stack = SubSeq(@, 1, Len(@) - 1), !.val = m.stack[Len(m.stack)]]

\* A peek that removes the value it returns.
peek_removes(m) ==
    IF Len(m.stack) = 0 THEN Fail(m, "Stack is empty!")
    ELSE [m EXCEPT !.stack = SubSeq(@, 1, Len(@) - 1), !.val = m.stack[Len(m.stack)]]

\* RPNParser::peek.
peek(m) ==
    IF Len(m.stack) = 0 THEN Fail(m, "Stack is empty!")
    ELSE [m EXCEPT !.val = m.stack[Len(m.stack)]]

\* RPNParser::clear.
clear(m) == [m EXCEPT !.stack = <<>>, !.vars = EmptyVars]

\* .parse()? on the value popped into p: n is the parse of p.val.
ParsedOperand(p, n) ==
    IF p.status # "ok" THEN [m |-> p, n |-> 0]
    ELSE IF ~n.ok THEN [m |-> Fail(p, "ParseIntError"), n |-> 0]
    ELSE [m |-> Unit(p), n |-> n.val]

\* self.pop()?.parse()?: pop a value and parse it as isize, or as u32 when
\* unsigned; a failed parse is returned with the value already popped.
PopParsed(m, unsigned) ==
    ParsedOperand(pop(m), IF unsigned THEN ParseU32(pop(m).val) ELSE ParseIsize(pop(m).val))

\* The pair of operands, or the first failure.
OperandPair(first, second) ==
    IF first.m.status # "ok" THEN [m |-> first.m, x |-> 0, y |-> 0]
    ELSE IF second.m.status # "ok" THEN [m |-> second.m, x |-> 0, y |-> 0]
    ELSE [m |-> second.m, x |-> first.n, y |-> second.n]

\* The second operand is popped from what the first pop left.
SecondOperand(first, unsigned) == OperandPair(first, PopParsed(first.m, unsigned))

\* Two operands popped and parsed: x first, as isize, then y, as u32 when
\* unsigned.
PopOperands(m, unsigned) == SecondOperand(PopParsed(m, FALSE), unsigned)

\* RPNParser::retrieve_stack_values: x is popped first, y second.
retrieve_stack_values(m) == PopOperands(m, FALSE)

\* Two's-complement wrap of n into the isize range.
Wrap(n) == ((n - IsizeMin) % (2 ^ IsizeBits)) + IsizeMin

InIsize(n) == IsizeMin <= n /\ n <= IsizeMax

\* The result of an isize operation whose mathematical value is r: with
\* overflow checks (a debug build) an out-of-range value panics, without
\* them (a release build) it wraps.
PushArith(m, r, what) ==
    IF ~InIsize(r) /\ overflow_checks THEN Panic(m, what, <<>>)
    ELSE push(m, IntToString(Wrap(r)))

\* let result = x + y; self.push(result.to_string())
AddOperands(r) ==
    IF r.m.status # "ok" THEN r.m
    ELSE PushArith(r.m, r.x + r.y, "attempt to add with overflow")

\* RPNParser::add.
add(m) == AddOperands(retrieve_stack_values(m))

\* let result = y - x; self.push(result.to_string())
SubtractOperands(r) ==
    IF r.m.status # "ok" THEN r.m
    ELSE PushArith(r.m, r.y - r.x, "attempt to subtract with overflow")

\* subtract with its operands exchanged: the first value popped minus the
\* second.
subtract_first_minus_second(m) ==
    SubtractOperands([m |-> retrieve_stack_values(m).m,
                      x |-> retrieve_stack_values(m).y,
                      y |-> retrieve_stack_values(m).x])

\* RPNParser::subtract.
subtract(m) == SubtractOperands(retrieve_stack_values(m))

\* let result = x * y; self.push(result.to_string())
MultiplyOperands(r) ==
    IF r.m.status # "ok" THEN r.m
    ELSE PushArith(r.m, r.x * r.y, "attempt to multiply with overflow")

\* RPNParser::multiply.
multiply(m) == MultiplyOperands(retrieve_stack_values(m))

\* Division rounded toward minus infinity.
FloorDiv(a, b) ==
    IF (a < 0) # (b < 0) /\ Abs(a) % Abs(b) # 0
    THEN -(Abs(a) \div Abs(b)) - 1
    ELSE IF (a < 0) # (b < 0) THEN -(Abs(a) \div Abs(b)) ELSE Abs(a) \div Abs(b)

\* isize division: the quotient rounded toward zero.
TruncDiv(a, b) ==
    IF (a < 0) # (b < 0) THEN -(Abs(a) \div Abs(b)) ELSE Abs(a) \div Abs(b)

\* let result = y / x; self.push(result.to_string())
DivideOperands(r) ==
    IF r.m.status # "ok" THEN r.m
    ELSE IF r.x = 0 THEN Panic(r.m, "attempt to divide by zero", <<>>)
    ELSE IF r.y = IsizeMin /\ r.x = -1
         THEN Panic(r.m, "attempt to divide with overflow", <<>>)
    ELSE push(r.m, IntToString(TruncDiv(r.y, r.x)))

\* RPNParser::divide.
divide(m) == DivideOperands(retrieve_stack_values(m))

\* The loop of isize::pow (exponentiation by squaring) for exp >= 1: acc
\* collects the product, base is squared while exp > 1, the last factor is
\* multiplied in after the loop.  With checked, a product outside the isize
\* range ends the loop with ok FALSE; without, every product wraps.
RECURSIVE PowLoop(_, _, _, _)
PowLoop(base, exp, acc, checked) ==
    IF exp > 1
    THEN IF checked /\ ~(InIsize(IF exp % 2 = 1 THEN acc * base ELSE acc)
                         /\ InIsize(base * base))
         THEN [ok |-> FALSE, val |-> 0]
         ELSE PowLoop(Wrap(base * base), exp \div 2,
                      Wrap(IF exp % 2 = 1 THEN acc * base ELSE acc), checked)
    ELSE IF checked /\ ~InIsize(acc * base)
         THEN [ok |-> FALSE, val |-> 0]
         ELSE [ok |-> TRUE, val |-> Wrap(acc * base)]

\* isize::pow.
Pow(base, exp, checked) ==
    IF exp = 0 THEN [ok |-> TRUE, val |-> 1] ELSE PowLoop(base, exp, 1, checked)

\* self.push(result.to_string()) for result = base_val.pow(power).
PushPower(m, result) ==
    IF result.ok THEN push(m, IntToString(result.val))
    ELSE Panic(m, "attempt to multiply with overflow", <<>>)

\* let result = base_val.pow(power): r.x is base_val, r.y is power.
RaiseOperands(r) ==
    IF r.m.status # "ok" THEN r.m
    ELSE PushPower(r.m, Pow(r.x, r.y, overflow_checks))

\* RPNParser::exponent: the base is popped first, as isize, the power second,
\* as u32.
exponent(m) == RaiseOperands(PopOperands(m, TRUE))

\* An exchange that pushes the two popped values back in their old order.
exchange_keeps_order(m) ==
    IF pop(m).status # "ok" THEN pop(m)
    ELSE IF pop(pop(m)).status # "ok" THEN pop(pop(m))
    ELSE Unit(m)

\* self.push(t); self.push(t1) for the values popped into p1 and p2.
PushExchanged(p1, p2) ==
    IF p1.status # "ok" THEN p1
    ELSE IF p2.status # "ok" THEN p2
    ELSE Unit(push(push(p2, p1.val), p2.val))

\* let t1 = self.pop()?, after t was popped into p1.
PopSecond(p1) == PushExchanged(p1, pop(p1))

\* RPNParser::exchange.
exchange(m) == PopSecond(pop(m))

\* The lines of the for loop of stack_dump: self.stack from index 0 on.
StackLines(s) == [i \in 1..Len(s) |-> Line("Stack", s[i])]

\* RPNParser::stack_dump.
stack_dump(m) ==
    IF Len(m.stack) > 0
    THEN [m EXCEPT !.out = (Append(@, Line("STACK:", <<>>)) \o StackLines(m.stack))
                               \o <<Line("", <<>>)>>]
    ELSE m

\* RPNParser::var_dump.
var_dump(m) ==
    IF Len(m.stack) > 0
    THEN [m EXCEPT !.out = @ \o <<Line("TEMP VARS", <<>>),
                                  [label |-> "Key", text |-> <<>>,
                                   entries |-> {<<k, m.vars[k]>> : k \in DOMAIN m.vars}],
                                  Line("", <<>>)>>]
    ELSE m

\* The text of a token after its first character: token.as_str()[1..].
AfterSigil(token) == SubSeq(token, 2, Len(token))

\* self.vars.insert(name, val).
Insert(m, name, val) ==
    [m EXCEPT !.vars = [k \in (DOMAIN m.vars) \cup {name} |->
                            IF k = name THEN val ELSE m.vars[k]]]

\* A store that takes the top of the stack with pop rather than peek.
StoreToken_pops(m, token) ==
    IF Len(m.stack) = 0
    THEN Panic(m, "called Result::unwrap() on an Err value", <<>>)
    ELSE Insert(Unit(pop(m)), AfterSigil(token), pop(m).val)

\* The store branch of parse: !name copies the top of the stack into
\* self.vars under name; the Err of peek on an empty stack is unwrapped.
StoreToken(m, token) ==
    IF Len(m.stack) = 0
    THEN Panic(m, "called Result::unwrap() on an Err value", <<>>)
    ELSE Insert(m, AfterSigil(token), peek(m).val)

\* A recall in which the bare @ pushes the empty string.
RecallToken_pushes_empty(m, token) ==
    IF Len(AfterSigil(token)) = 0 THEN push(m, <<>>)
    ELSE IF AfterSigil(token) \in DOMAIN m.vars
         THEN push(m, m.vars[AfterSigil(token)])
         ELSE Panic(m, "called Option::unwrap() on a None value", <<>>)

\* The recall branch of parse: @name pushes self.vars[name]; a missing
\* entry is an unwrapped None, an empty name the panic "Unknown variable".
RecallToken(m, token) ==
    IF Len(AfterSigil(token)) = 0 THEN Panic(m, "Unknown variable", token)
    ELSE IF AfterSigil(token) \in DOMAIN m.vars
         THEN push(m, m.vars[AfterSigil(token)])
         ELSE Panic(m, "called Option::unwrap() on a None value", <<>>)

\* The numeric branch of parse: the literal is pushed as value.to_string(),
\* unless that text equals the last token of the expression.
NumberToken(m, tokens, value) ==
    IF tokens[Len(tokens)] = IntToString(value)
    THEN EmitLine(m, Line("Last item needs to be an operator!", <<>>))
    ELSE push(m, IntToString(value))

\* The arms of the match on token.to_lowercase() in parse.
MatchToken(m, token, lower) ==
    IF lower = <<"x">> THEN exchange(m)
    ELSE IF lower = <<"?">> THEN stack_dump(m)
    ELSE IF lower = <<"&">> THEN var_dump(m)
    ELSE IF lower = <<"+">> THEN add(m)
    ELSE IF lower = <<"-">> THEN subtract(m)
    ELSE IF lower = <<"*">> THEN multiply(m)
    ELSE IF lower = <<"/">> THEN divide(m)
    ELSE IF lower = <<"^">> THEN exponent(m)
    ELSE IF token[1] = "!" THEN StoreToken(m, token)
    ELSE IF token[1] = "@" THEN RecallToken(m, token)
    ELSE Panic(m, "Unknown operator or number", token)

\* The Err arm of the match on token.parse::<isize>() in parse.
OperatorToken(m, token) == MatchToken(m, token, ToLowercase(token))

\* The match on token.parse::<isize>() in parse: n is the parse of tokens[i].
ClassifyToken(m, tokens, i, n) ==
    IF n.ok THEN NumberToken(m, tokens, n.val)
    ELSE OperatorToken(m, tokens[i])

\* One iteration of the for loop of parse, on tokens[i].
ParseToken(m, tokens, i) == ClassifyToken(m, tokens, i, ParseIsize(tokens[i]))

\* The for loop of parse over tokens[i..n]: it ends at the first token that
\* does not end "ok".
RECURSIVE ParseLoop(_, _, _, _)
\* A loop that goes on with the next token after a failed one.
ParseNext_continues(next, tokens, i, n) == ParseLoop(next, tokens, i + 1, n)

ParseNext(next, tokens, i, n) ==
    IF next.status # "ok" THEN next
    ELSE ParseLoop(next, tokens, i + 1, n)

ParseLoop(m, tokens, i, n) ==
    IF i > n THEN m
    ELSE ParseNext(ParseToken(m, tokens, i), tokens, i, n)

\* A parse that starts from a cleared RPNParser.
ParseTokens_fresh(m, tokens) ==
    ParseLoop(clear(m), tokens, 1, Len(tokens))

\* parse after split_whitespace.
ParseTokens(m, tokens) ==
    ParseLoop(IF Len(tokens) = 0 THEN EmitLine(m, Line("Nothing to parse!", <<>>)) ELSE m,
              tokens, 1, Len(tokens))

\* RPNParser::parse.
parse(m, expression) == ParseTokens(m, SplitWhitespace(expression))

\* ------------------------------------------------------------ inputs
\* The tokens of the one-token expressions: literals, every operator, a
\* store, a recall, a bare recall sigil and an unknown word.
Tokens ==
    {<<"2">>,
     <<"-", "3">>,
     <<"0">>,
     <<"+">>,
     <<"-">>,
     <<"*">>,
     <<"/">>,
     <<"^">>,
     <<"x">>,
     <<"?">>,
     <<"&">>,
     <<"!", "a">>,
     <<"@", "a">>,
     <<"@">>,
     <<"q">>}

\* Longer expressions: the documented examples of parse, the tests of
\* src/lib.rs and the cases of division, exponent and the last-token rule.
ScenarioTokens ==
    {<<<<"5">>, <<"2">>, <<"+">>, <<"-", "3">>, <<"-">>, <<"1", "0">>, <<"+">>>>,
     <<<<"5">>, <<"5">>, <<"^">>, <<"1", "2", "5">>, <<"-">>, <<"3", "0">>, <<"/">>>>,
     <<<<"5", "0">>, <<"2", "0">>, <<"+">>, <<"!", "t", "e", "m", "p">>>>,
     <<<<"2">>, <<"@", "t", "e", "m", "p">>, <<"*">>>>,
     <<<<"5">>>>,
     <<<<"3">>, <<"@", "u", "n", "d", "e", "f", "i", "n", "e", "d">>, <<"+">>>>,
     <<<<"7">>, <<"2">>, <<"/">>>>,
     <<<<"-", "7">>, <<"2">>, <<"/">>>>,
     <<<<"7">>, <<"-", "2">>, <<"/">>>>,
     <<<<"-", "7">>, <<"-", "2">>, <<"/">>>>,
     <<<<"2">>, <<"3">>, <<"^">>>>,
     <<<<"-", "1">>, <<"2">>, <<"^">>>>,
     <<<<"9">>, <<"9">>, <<"^">>>>,
     <<<<"2", "0", "0">>, <<"1">>, <<"^">>>>,
     <<<<"7">>, <<"3">>, <<"7">>>>,
     <<<<"7">>, <<"7">>, <<"+">>>>,
     <<<<"2">>, <<"+", "5">>>>,
     <<<<"2">>, <<"3">>, <<"X">>>>,
     <<<<"2">>, <<"-", "3">>, <<"x">>, <<"?">>>>,
     <<<<"2">>, <<"!", "a">>, <<"0">>, <<"!", "b">>, <<"&">>>>,
     <<<<"4">>, <<"0">>, <<"/">>>>,
     <<<<"2">>, <<"!", "a">>, <<"x">>>>,
     <<<<"2">>, <<"!", "a">>, <<"3">>, <<"+">>, <<"@", "a">>>>}

\* The tokens of an expression joined by single spaces.
RECURSIVE Join(_)
Join(ts) ==
    IF Len(ts) = 0 THEN <<>>
    ELSE IF Len(ts) = 1 THEN ts[1]
    ELSE (ts[1] \o <<" ">>) \o Join(Tail(ts))

\* The tokens of the two-token expressions.
PairTokens == Tokens \ {<<"x">>, <<"?">>, <<"&">>, <<"@">>}

\* The first tokens of the two-token expressions: PairTokens but for the
\* operators whose effect as a first token is that of + or /.
FirstTokens == PairTokens \ {<<"-">>, <<"*">>, <<"^">>, <<"q">>}

\* The empty expression, every token alone and every pair of a first token
\* and a token of PairTokens.
TokenSeqs ==
    {<<>>} \cup {<<t>> : t \in Tokens} \cup {<<t, u>> : t \in FirstTokens, u \in PairTokens}

\* Expressions whose tokens are separated and surrounded by other whitespace.
SpacedExpressions ==
    {<<" ", " ">>,
     <<" ", "2", "\t", " ", "-", "3", "\n", "+", " ">>,
     <<"\t", "5", "\n">>}

\* The expressions handed to parse.
Expressions ==
    {Join(ts) : ts \in TokenSeqs \cup ScenarioTokens}
    \cup {Join(<<IntToString(IsizeMax), <<"2">>, op>>) : op \in {<<"+">>, <<"*">>}}
    \cup {Join(<<IntToString(IsizeMin), <<"-", "1">>, <<"/">>>>)}
    \cup SpacedExpressions

\* The values handed to push: numbers and text that is no number.
PushValues == {<<"1", "0">>, <<"9", "9">>, <<"0">>, <<"+">>, <<>>}

\* ------------------------------------------------------------ the calls
\* last, before any call.
NoCall ==
    [op |-> "new", arg |-> <<>>, status |-> "ok", kind |-> "none", text |-> <<>>,
     val |-> <<>>, out |-> <<>>, pre_stack |-> <<>>, pre_vars |-> EmptyVars]

\* RPNParser::new, in a build with or without overflow checks.
Init ==
    /\ stack = <<>>
    /\ vars = EmptyVars
    /\ last = NoCall
    /\ calls = 0
    /\ overflow_checks \in BOOLEAN

\* self at the start of a call.
Self == Machine(stack, vars)

\* A call of a method is possible while the thread has not panicked.
CanCall == calls < MaxCalls /\ last.status # "panic"

\* The effect of one call that ends in m: self is what the call left, and
\* last records the call and how it ended.
Return(op, arg, m) ==
    /\ stack' = m.stack
    /\ vars' = m.vars
    /\ last' = [op |-> op, arg |-> arg, status |-> m.status, kind |-> m.kind,
                text |-> m.text, val |-> m.val, out |-> m.out,
                pre_stack |-> stack, pre_vars |-> vars]
    /\ calls' = calls + 1
    /\ UNCHANGED overflow_checks

Parse(expression) == CanCall /\ Return("parse", expression, parse(Self, expression))

Push(value) == CanCall /\ Return("push", value, push(Self, value))

Pop == CanCall /\ Return("pop", <<>>, pop(Self))

Peek == CanCall /\ Return("peek", <<>>, peek(Self))

Clear == CanCall /\ Return("clear", <<>>, clear(Self))

Add == CanCall /\ Return("add", <<>>, add(Self))

Subtract == CanCall /\ Return("subtract", <<>>, subtract(Self))

Multiply == CanCall /\ Return("multiply", <<>>, multiply(Self))

Divide == CanCall /\ Return("divide", <<>>, divide(Self))

Exponent == CanCall /\ Return("exponent", <<>>, exponent(Self))

Exchange == CanCall /\ Return("exchange", <<>>, exchange(Self))

StackDump == CanCall /\ Return("stack_dump", <<>>, stack_dump(Self))

VarDump == CanCall /\ Return("var_dump", <<>>, var_dump(Self))

Next ==
    \/ \E expression \in Expressions : Parse(expression)
    \/ \E value \in PushValues : Push(value)
    \/ Pop
    \/ Peek
    \/ Clear
    \/ Add
    \/ Subtract
    \/ Multiply
    \/ Divide
    \/ Exponent
    \/ Exchange
    \/ StackDump
    \/ VarDump

Spec == Init /\ [][Next]_allvars

\* ------------------------------------------------------------ arithmetic on a fresh parser
\* Longest enumerated arithmetic expression, in tokens.
MaxArithTokens == 5

\* Literals (a negative one, zero, one with an explicit plus sign, one whose
\* square leaves the modelled isize range) and the binary operators.
ArithmeticLiterals == {<<"-", "3">>, <<"0">>, <<"+", "5">>, <<"9", "9">>}

ArithmeticOperators == {<<"+">>, <<"-">>, <<"*">>, <<"/">>, <<"^">>}

\* Every operator of ts[i..] finds two operands, d being the number of
\* operands on the stack before token i.
RECURSIVE OperandsSuffice(_, _, _)
OperandsSuffice(ts, i, d) ==
    IF i > Len(ts) THEN TRUE
    ELSE IF ts[i] \in ArithmeticOperators THEN d >= 2 /\ OperandsSuffice(ts, i + 1, d - 1)
    ELSE OperandsSuffice(ts, i + 1, d + 1)

\* The arithmetic examples of the documentation and the tests, and operations
\* at the ends of the isize range.
ArithmeticExamples ==
    {Join(ts) : ts \in
        {ts \in ScenarioTokens :
            /\ \A i \in 1..Len(ts) : ts[i] \in ArithmeticOperators \/ ParseIsize(ts[i]).ok
            /\ ts[Len(ts)] \in ArithmeticOperators}}
    \cup {Join(<<IntToString(IsizeMax), <<"2">>, op>>) : op \in {<<"+">>, <<"*">>}}
    \cup {Join(<<IntToString(IsizeMin), <<"-", "1">>, <<"/">>>>)}

\* parse of any sequence of at most MaxArithTokens literals and operators
\* that ends in an operator and in which no operator lacks an operand.
ParseEnumerated ==
    \E k \in 1..MaxArithTokens :
        \E ts \in [1..k -> ArithmeticLiterals \cup ArithmeticOperators] :
            /\ ts[k] \in ArithmeticOperators
            /\ OperandsSuffice(ts, 1, 0)
            /\ Parse(Join(ts))

ParseExample == \E expression \in ArithmeticExamples : Parse(expression)

\* The first and only call on a new RPNParser is parse.
NextArithmetic ==
    /\ calls = 0
    /\ (ParseEnumerated \/ ParseExample)

\* A new RPNParser that evaluates one arithmetic expression.
SpecArithmetic == Init /\ [][NextArithmetic]_allvars

\* ------------------------------------------------------------ the last call, token by token
\* The tokens of the expression of the last call, when it was a parse.
LastTokens == SplitWhitespace(last.arg)

\* self before the last call.
Before == Machine(last.pre_stack, last.pre_vars)

\* The last parse after its first k tokens (or where it stopped before).
AfterToken(k) == ParseLoop(Before, LastTokens, 1, k)

\* The loop of the last parse reached token k.
Ran(k) == k \in 1..Len(LastTokens) /\ AfterToken(k - 1).status = "ok"

Top(s) == s[Len(s)]

\* ------------------------------------------------------------ C1
BinaryOperators == {<<"+">>, <<"-">>, <<"*">>, <<"/">>, <<"^">>}

\* A signed integer literal: an optional sign and at least one digit.
IsLiteral(t) ==
    LET digits == IF t[1] \in {"+", "-"} THEN Tail(t) ELSE t
    IN  Len(digits) > 0 /\ \A i \in 1..Len(digits) : IsDigit(digits[i])

\* The number of values on an evaluation stack after the first k tokens, or
\* -1 once an operator has found fewer than two.
RECURSIVE Depth(_, _)
Depth(ts, k) ==
    IF k = 0 THEN 0
    ELSE LET d == Depth(ts, k - 1)
         IN  IF d < 0 THEN -1
             ELSE IF IsLiteral(ts[k]) THEN d + 1
             ELSE IF d < 2 THEN -1 ELSE d - 1

\* ts is made of literals and binary operators, is well-formed RPN for one
\* value and ends in an operator.
WellFormedArithmetic(ts) ==
    /\ Len(ts) > 0
    /\ \A i \in 1..Len(ts) : IsLiteral(ts[i]) \/ ts[i] \in BinaryOperators
    /\ ts[Len(ts)] \in BinaryOperators
    /\ Depth(ts, Len(ts)) = 1

\* The index at which the subexpression that ends at token j starts.
RECURSIVE StartOf(_, _)
StartOf(ts, j) ==
    IF IsLiteral(ts[j]) THEN j ELSE StartOf(ts, StartOf(ts, j - 1) - 1)

\* The value of a literal, digit by digit from the right.
RECURSIVE DigitsValue(_)
DigitsValue(d) ==
    IF Len(d) = 0 THEN 0
    ELSE DigitVal(d[Len(d)]) + 10 * DigitsValue(SubSeq(d, 1, Len(d) - 1))

LiteralValue(t) ==
    IF t[1] = "-" THEN -DigitsValue(Tail(t))
    ELSE IF t[1] = "+" THEN DigitsValue(Tail(t))
    ELSE DigitsValue(t)

\* b raised to p >= 0 as a plain product, given up (fits FALSE) once the
\* product has left the isize range.
RECURSIVE PowerOf(_, _, _)
PowerOf(b, p, acc) ==
    IF ~InIsize(acc) THEN [fits |-> FALSE, val |-> 0]
    ELSE IF p = 0 THEN [fits |-> TRUE, val |-> acc]
    ELSE IF b \in {0, 1} THEN [fits |-> TRUE, val |-> b * acc]
    ELSE IF b = -1 THEN [fits |-> TRUE, val |-> IF p % 2 = 0 THEN acc ELSE -acc]
    ELSE PowerOf(b, p - 1, acc * b)

\* The value of the infix expression that the RPN subexpression ending at
\* token j stands for: l op r with l the left (earlier) and r the right
\* (later) operand, l / r rounded toward zero, and for ^ the right operand
\* raised to the left one.  def: the value exists (no zero divisor, no
\* negative power); fits: it exists and every literal, every power and every
\* intermediate value is in the machine range; val is the value when
\* its operands fit.
RECURSIVE InfixValue(_, _)
InfixValue(ts, j) ==
    IF IsLiteral(ts[j])
    THEN [def |-> TRUE, fits |-> ParseIsize(ts[j]).ok, val |-> LiteralValue(ts[j]),
          known |-> ParseIsize(ts[j]).ok]
    ELSE LET r == InfixValue(ts, j - 1)
             l == InfixValue(ts, StartOf(ts, j - 1) - 1)
             op == ts[j]
             both == l.fits /\ r.fits
             def == /\ l.def /\ r.def
                    /\ (both /\ op = <<"/">>) => r.val # 0
                    /\ (both /\ op = <<"^">>) => l.val >= 0
             pw == IF both /\ def /\ op = <<"^">> /\ l.val <= U32Max
                   THEN PowerOf(r.val, l.val, 1)
                   ELSE [fits |-> FALSE, val |-> 0]
             val == IF ~(both /\ def) THEN 0
                    ELSE IF op = <<"+">> THEN l.val + r.val
                    ELSE IF op = <<"-">> THEN l.val - r.val
                    ELSE IF op = <<"*">> THEN l.val * r.val
                    ELSE IF op = <<"/">> THEN
                         (IF l.val * r.val >= 0
                          THEN Abs(l.val) \div Abs(r.val)
                          ELSE -(Abs(l.val) \div Abs(r.val)))
                    ELSE pw.val
         IN  [def |-> def,
              fits |-> both /\ def /\ InIsize(val) /\ (op = <<"^">> => pw.fits),
              val |-> val,
              known |-> both /\ def /\ (op = <<"^">> => pw.fits)]

\* The last call was parse, on a fresh RPNParser, of a well-formed
\* arithmetic expression.
ArithmeticOnFresh ==
    /\ last.op = "parse"
    /\ calls = 1
    /\ WellFormedArithmetic(LastTokens)

LastValue == InfixValue(LastTokens, Len(LastTokens))

\* C1 as stated: every well-formed expression of integer literals and binary
\* operators that ends in an operator evaluates successfully on a fresh
\* evaluator, and peek then returns the decimal string of the value of the
\* equivalent infix expression.
C1_EveryExpressionSucceeds ==
    (ArithmeticOnFresh /\ LastValue.def) =>
        /\ last.status = "ok"
        /\ LastValue.known => /\ peek(Self).status = "ok"
                              /\ peek(Self).val = IntToString(LastValue.val)

\* C1 as amended: when the infix value exists (no zero divisor, no negative
\* power) and every literal, every power and every intermediate value fits the
\* machine integers (isize, and u32 for a power), parse on a fresh evaluator
\* succeeds, leaves exactly one value, and peek returns the decimal string of
\* the infix value.
C1_InRangeExpressionValue ==
    (ArithmeticOnFresh /\ LastValue.fits) =>
        /\ last.status = "ok"
        /\ Len(stack) = 1
        /\ peek(Self).status = "ok"
        /\ peek(Self).val = IntToString(LastValue.val)

\* A state in which a seven-token expression with in-range values has been
\* evaluated on a fresh evaluator, subtraction of a negative number included.
C1_Witness ==
    /\ ArithmeticOnFresh
    /\ LastValue.fits
    /\ Len(LastTokens) = 7
    /\ <<"-">> \in {LastTokens[i] : i \in 1..7}
    /\ stack = <<<<"2", "0">>>>

\* ------------------------------------------------------------ C2
\* A store token: the sigil ! and a name, possibly empty.
IsStore(t) == Len(t) >= 1 /\ t[1] = "!"

\* A recall token: the sigil @ and a name.
IsRecall(t) == Len(t) >= 2 /\ t[1] = "@"

\* The names the last call can have touched.
LastNames ==
    (DOMAIN last.pre_vars)
    \cup {AfterSigil(LastTokens[i]) : i \in {j \in 1..Len(LastTokens) : IsStore(LastTokens[j])}}

\* The last parse after each number of tokens: LastTrace[k + 1] is
\* AfterToken(k).
RECURSIVE TraceFrom(_, _, _)
TraceFrom(acc, tokens, k) ==
    IF k > Len(tokens) THEN acc
    ELSE TraceFrom(Append(acc, IF acc[k].status = "ok"
                               THEN ParseToken(acc[k], tokens, k)
                               ELSE acc[k]),
                   tokens, k + 1)

LastTrace == TraceFrom(<<Before>>, LastTokens, 1)

\* What was on top of the stack when name was last stored, looking back from
\* token k of the last parse, whose trace is tr, to the variable store the
\* call started with; it is read off the stack alone, never off the variable
\* store.
RECURSIVE StoredValue(_, _, _, _)
StoredValue(tr, ts, name, k) ==
    IF k = 0
    THEN IF name \in DOMAIN last.pre_vars
         THEN [set |-> TRUE, val |-> last.pre_vars[name]]
         ELSE [set |-> FALSE, val |-> <<>>]
    ELSE IF /\ tr[k].status = "ok"
            /\ ts[k] = <<"!">> \o name
            /\ Len(tr[k].stack) > 0
         THEN [set |-> TRUE, val |-> Top(tr[k].stack)]
         ELSE StoredValue(tr, ts, name, k - 1)

\* C2: a store token !name evaluated with v on top of the stack leaves the
\* stack exactly as it was and maps name to v; a later recall token @name, in
\* the same parse call or in a later one and whatever happened to the stack
\* in between, pushes the v of the latest store of name: the variable store
\* a parse call leaves holds, for every name, the top of the stack at the
\* latest store, and no call but parse and clear changes the variable store.
C2_StoreThenRecall ==
    /\ last.op = "parse" =>
          LET tr == LastTrace
              ts == LastTokens
              n == Len(ts)
          IN  /\ \A k \in 1..n :
                    tr[k].status = "ok" =>
                       /\ (IsStore(ts[k]) /\ Len(tr[k].stack) > 0) =>
                             /\ tr[k + 1].status = "ok"
                             /\ tr[k + 1].stack = tr[k].stack
                             /\ tr[k + 1].vars[AfterSigil(ts[k])] = Top(tr[k].stack)
                       /\ (/\ IsRecall(ts[k])
                           /\ StoredValue(tr, ts, AfterSigil(ts[k]), k - 1).set) =>
                             /\ tr[k + 1].status = "ok"
                             /\ tr[k + 1].stack =
                                   Append(tr[k].stack,
                                          StoredValue(tr, ts, AfterSigil(ts[k]), k - 1).val)
              /\ stack = tr[n + 1].stack
              /\ DOMAIN vars \subseteq LastNames
              /\ \A name \in LastNames :
                    /\ (name \in DOMAIN vars) = StoredValue(tr, ts, name, n).set
                    /\ name \in DOMAIN vars => vars[name] = StoredValue(tr, ts, name, n).val
    /\ last.op \notin {"parse", "clear", "new"} => vars = last.pre_vars

\* The second of two parse calls recalls temp, stored by the first with 70 on
\* top of the stack, and multiplies it by 2.
C2_Witness ==
    /\ calls = 2
    /\ last.op = "parse"
    /\ last.arg = Join(<<<<"2">>, <<"@", "t", "e", "m", "p">>, <<"*">>>>)
    /\ last.pre_stack = <<<<"7", "0">>>>
    /\ <<"t", "e", "m", "p">> \in DOMAIN last.pre_vars
    /\ stack = <<<<"7", "0">>, <<"1", "4", "0">>>>

\* ------------------------------------------------------------ C3
OperatorNames == {<<"x">>, <<"?">>, <<"&">>, <<"+">>, <<"-">>, <<"*">>, <<"/">>, <<"^">>}

\* A token that is no integer, no operator and starts with neither ! nor @.
IsUnknown(t) ==
    /\ ~ParseIsize(t).ok
    /\ ToLowercase(t) \notin OperatorNames
    /\ t[1] \notin {"!", "@"}

\* C3 as stated: parse never panics, whatever the state and the expression,
\* and a token that is no integer, no operator and starts with neither ! nor
\* @ makes parse return an UnknownToken error that carries the token.
C3_EvaluateNeverPanics ==
    last.op = "parse" =>
        /\ last.status # "panic"
        /\ \A k \in 1..Len(LastTokens) :
              (Ran(k) /\ IsUnknown(LastTokens[k])) =>
                 /\ last.status = "err"
                 /\ last.kind = "UnknownToken"
                 /\ last.text = LastTokens[k]

\* ------------------------------------------------------------ C4
\* C4 as stated: parse of an expression whose last token is a numeric
\* literal returns a TrailingOperand error once it reaches that token, and
\* for a single-token expression the stack and the variable store are left
\* as they were.
C4_TrailingOperandError ==
    (/\ last.op = "parse"
     /\ Len(LastTokens) > 0
     /\ ParseIsize(Top(LastTokens)).ok
     /\ Ran(Len(LastTokens))) =>
        /\ last.status = "err"
        /\ last.kind = "TrailingOperand"
        /\ Len(LastTokens) = 1 => (stack = last.pre_stack /\ vars = last.pre_vars)

\* ------------------------------------------------------------ C5
\* The stack s holds "0" on top and an integer below it.
ZeroOverInteger(s) ==
    /\ Len(s) >= 2
    /\ s[Len(s)] = <<"0">>
    /\ ParseIsize(s[Len(s) - 1]).ok

\* C5 as stated: divide with "0" on top of the stack and an integer below it
\* fails with a DivisionByZero error and leaves the stack as it was, whether
\* it runs as the / token of a parse or as a call of divide.
C5_DivisionByZeroError ==
    /\ last.op = "parse" =>
          \A k \in 1..Len(LastTokens) :
             (/\ Ran(k)
              /\ LastTokens[k] = <<"/">>
              /\ ZeroOverInteger(AfterToken(k - 1).stack)) =>
                 /\ AfterToken(k).status = "err"
                 /\ AfterToken(k).kind = "DivisionByZero"
                 /\ AfterToken(k).stack = AfterToken(k - 1).stack
                 /\ last.status = "err"
                 /\ stack = AfterToken(k - 1).stack
    /\ (last.op = "divide" /\ ZeroOverInteger(last.pre_stack)) =>
          /\ last.status = "err"
          /\ last.kind = "DivisionByZero"
          /\ stack = last.pre_stack

\* ------------------------------------------------------------ C6
\* C6 as stated: a recall token @name whose name is not in the variable
\* store makes parse fail with an UndefinedVariable error; nothing is pushed
\* for the token and no later token runs.
C6_UndefinedVariableError ==
    last.op = "parse" =>
        \A k \in 1..Len(LastTokens) :
           (/\ Ran(k)
            /\ IsRecall(LastTokens[k])
            /\ AfterSigil(LastTokens[k]) \notin DOMAIN AfterToken(k - 1).vars) =>
               /\ last.status = "err"
               /\ last.kind = "UndefinedVariable"
               /\ stack = AfterToken(k - 1).stack
               /\ vars = AfterToken(k - 1).vars

\* ------------------------------------------------------------ C7
Front(s) == SubSeq(s, 1, Len(s) - 1)

\* C7: for every stack and every string v, push(v) followed by pop() returns
\* v and leaves the stack as it was before the push, with the variable store
\* unchanged.  It is stated for a push and a pop made in any reachable state,
\* and for the calls of push and pop that were made: push appends its
\* argument and a successful pop returns and removes the last element, both
\* leaving the variable store alone.
C7_PushThenPop ==
    /\ \A v \in PushValues :
          /\ pop(push(Self, v)).status = "ok"
          /\ pop(push(Self, v)).val = v
          /\ pop(push(Self, v)).stack = stack
          /\ pop(push(Self, v)).vars = vars
    /\ last.op = "push" =>
          /\ last.status = "ok"
          /\ stack = Append(last.pre_stack, last.arg)
          /\ vars = last.pre_vars
    /\ (last.op = "pop" /\ Len(last.pre_stack) > 0) =>
          /\ last.status = "ok"
          /\ last.val = Top(last.pre_stack)
          /\ stack = Front(last.pre_stack)
          /\ vars = last.pre_vars

\* push("+") on a new RPNParser followed by pop(): the pop returned "+" and
\* the stack is empty again.
C7_Witness ==
    /\ calls = 2
    /\ last.op = "pop"
    /\ last.status = "ok"
    /\ last.val = <<"+">>
    /\ last.pre_stack = <<<<"+">>>>
    /\ stack = <<>>

\* ------------------------------------------------------------ C8
\* C8: for every stack and every string v, push(v) followed by peek() returns
\* v and the stack is the old one with v appended; peek changes neither the
\* stack nor the variable store, so a second peek returns the same value.
C8_PushThenPeek ==
    /\ \A v \in PushValues :
          /\ peek(push(Self, v)).status = "ok"
          /\ peek(push(Self, v)).val = v
          /\ peek(push(Self, v)).stack = Append(stack, v)
          /\ Len(peek(push(Self, v)).stack) = Len(stack) + 1
          /\ peek(push(Self, v)).vars = vars
          /\ peek(peek(push(Self, v))) = peek(push(Self, v))
    /\ last.op = "peek" =>
          /\ stack = last.pre_stack
          /\ vars = last.pre_vars
          /\ Len(stack) > 0 =>
                /\ last.status = "ok"
                /\ last.val = Top(stack)
                /\ peek(Self).val = last.val

\* push("99") on a new RPNParser followed by peek(): the peek returned "99"
\* and the stack holds just "99".
C8_Witness ==
    /\ calls = 2
    /\ last.op = "peek"
    /\ last.status = "ok"
    /\ last.val = <<"9", "9">>
    /\ stack = <<<<"9", "9">>>>

\* ------------------------------------------------------------ C9
\* C9: pop() and peek() on an empty stack return the error "Stack is empty!"
\* and no value, and leave the stack empty and the variable store unchanged.
C9_EmptyStackUnderflow ==
    /\ Len(stack) = 0 =>
          /\ pop(Self).status = "err" /\ peek(Self).status = "err"
          /\ pop(Self).kind = "Stack is empty!" /\ peek(Self).kind = "Stack is empty!"
          /\ pop(Self).val = <<>> /\ peek(Self).val = <<>>
          /\ pop(Self).stack = <<>> /\ peek(Self).stack = <<>>
          /\ pop(Self).vars = vars /\ peek(Self).vars = vars
    /\ (last.op \in {"pop", "peek"} /\ Len(last.pre_stack) = 0) =>
          /\ last.status = "err"
          /\ last.kind = "Stack is empty!"
          /\ last.val = <<>>
          /\ stack = <<>>
          /\ vars = last.pre_vars

\* pop() on an empty stack while a variable is stored: the call returned the
\* error and the variable is still there.
C9_Witness ==
    /\ last.op = "pop"
    /\ last.status = "err"
    /\ last.kind = "Stack is empty!"
    /\ last.pre_stack = <<>>
    /\ stack = <<>>
    /\ vars # EmptyVars
    /\ vars = last.pre_vars

\* ------------------------------------------------------------ C10
\* C10 as stated: clear() leaves the stack and the variable store empty;
\* right after it peek and pop fail with "Stack is empty!", and a parse of
\* @name fails with an UndefinedVariable error for every name, those stored
\* before the clear included.
C10_ClearThenLookupsFail ==
    last.op = "clear" =>
        /\ last.status = "ok"
        /\ stack = <<>>
        /\ vars = EmptyVars
        /\ pop(Self).status = "err" /\ pop(Self).kind = "Stack is empty!"
        /\ peek(Self).status = "err" /\ peek(Self).kind = "Stack is empty!"
        /\ \A name \in (DOMAIN last.pre_vars) \cup {<<"a">>, <<"t", "e", "m", "p">>} :
              Len(name) > 0 =>
                 /\ parse(Self, <<"@">> \o name).status = "err"
                 /\ parse(Self, <<"@">> \o name).kind = "UndefinedVariable"
                 /\ parse(Self, <<"@">> \o name).stack = <<>>

\* ------------------------------------------------------------ C11
\* s with its last two elements exchanged.
Swapped(s) == SubSeq(s, 1, Len(s) - 2) \o <<s[Len(s)], s[Len(s) - 1]>>

Divisible(s) ==
    /\ Len(s) >= 2
    /\ ParseIsize(s[Len(s)]).ok
    /\ ParseIsize(s[Len(s) - 1]).ok
    /\ ParseIsize(s[Len(s)]).val # 0

Divisor(s) == ParseIsize(s[Len(s)]).val

Dividend(s) == ParseIsize(s[Len(s) - 1]).val

\* y / x rounded toward zero, by its defining property: the remainder
\* y - q * x is smaller than x in absolute value and is zero or has the sign
\* of y.
QuotientTowardZero(y, x) ==
    CHOOSE q \in -Abs(y)..Abs(y) :
        /\ Abs(y - q * x) < Abs(x)
        /\ y - q * x = 0 \/ (y - q * x < 0) = (y < 0)

\* A division that took the machine from before to after pushed the quotient
\* rounded toward zero in place of its two operands.
QuotientPushed(before, after) ==
    /\ after.status = "ok"
    /\ after.stack = Append(SubSeq(before.stack, 1, Len(before.stack) - 2),
                            IntToString(QuotientTowardZero(Dividend(before.stack),
                                                           Divisor(before.stack))))
    /\ after.vars = before.vars

\* The quotient of the two integers on top of s is a machine integer: it is
\* not the least integer divided by -1.
QuotientFits(s) == ~(Dividend(s) = IsizeMin /\ Divisor(s) = -1)

\* C12 as stated: divide with a non-zero integer x on top of the stack and
\* an integer y below it pushes y / x rounded toward zero, whatever the signs,
\* as a call of divide and as the / token of a parse.
C12_QuotientTowardZero ==
    /\ Divisible(stack) => QuotientPushed(Self, divide(Self))
    /\ (last.op = "divide" /\ Divisible(last.pre_stack)) =>
          QuotientPushed(Before, [stack |-> stack, vars |-> vars, status |-> last.status])
    /\ last.op = "parse" =>
          LET tr == LastTrace
              ts == LastTokens
          IN  \A k \in 1..Len(ts) :
                 (tr[k].status = "ok" /\ ts[k] = <<"/">> /\ Divisible(tr[k].stack)) =>
                    QuotientPushed(tr[k], tr[k + 1])

\* C12 as amended: the same, when the quotient is a machine integer (the
\* dividend is not the least integer or the divisor is not -1).
C12_RepresentableQuotientTowardZero ==
    /\ (Divisible(stack) /\ QuotientFits(stack)) => QuotientPushed(Self, divide(Self))
    /\ (last.op = "divide" /\ Divisible(last.pre_stack) /\ QuotientFits(last.pre_stack)) =>
          QuotientPushed(Before, [stack |-> stack, vars |-> vars, status |-> last.status])
    /\ last.op = "parse" =>
          LET tr == LastTrace
              ts == LastTokens
          IN  \A k \in 1..Len(ts) :
                 (/\ tr[k].status = "ok"
                  /\ ts[k] = <<"/">>
                  /\ Divisible(tr[k].stack)
                  /\ QuotientFits(tr[k].stack)) =>
                    QuotientPushed(tr[k], tr[k + 1])

\* A parse divided -7 by 2 and left -3, not the floor -4.
C12_Witness ==
    /\ last.op = "parse"
    /\ last.status = "ok"
    /\ LastTokens = <<<<"-", "7">>, <<"2">>, <<"/">>>>
    /\ last.pre_stack = <<>>
    /\ stack = <<<<"-", "3">>>>

\* ------------------------------------------------------------ C13
\* The stack s holds an integer base on top and an integer power below it.
Raisable(s) ==
    /\ Len(s) >= 2
    /\ ParseIsize(s[Len(s)]).ok
    /\ ParseIsize(s[Len(s) - 1]).ok

BaseOf(s) == ParseIsize(s[Len(s)]).val

PowerIn(s) == ParseIsize(s[Len(s) - 1]).val

\* The operands of ^ are gone from the stack of before and nothing else
\* changed.
OperandsTaken(before, after) ==
    /\ after.stack = SubSeq(before.stack, 1, Len(before.stack) - 2)
    /\ after.vars = before.vars

\* What C13 says of a ^ that took the machine from before, with a base on
\* top and a power below, to after: for a non-negative power the base raised
\* to the power replaces the operands, for a negative power the operator
\* fails with an InvalidExponent error and pushes nothing.
RaisedAsStated(before, after) ==
    IF PowerIn(before.stack) >= 0
    THEN /\ after.status = "ok"
         /\ PowerOf(BaseOf(before.stack), PowerIn(before.stack), 1).fits
         /\ after.stack =
               Append(SubSeq(before.stack, 1, Len(before.stack) - 2),
                      IntToString(PowerOf(BaseOf(before.stack), PowerIn(before.stack), 1).val))
         /\ after.vars = before.vars
    ELSE /\ after.status = "err"
         /\ after.kind = "InvalidExponent"
         /\ OperandsTaken(before, after)

\* C13 as stated: ^ pops the base first (the top of the stack) and the power
\* second (the entry below), so that "p b ^" pushes b raised to p for every
\* non-negative p; a negative power makes the operator fail with an
\* InvalidExponent error and push no result.  Stated for a call of exponent
\* and for the ^ token of a parse.
C13_BaseFirstPowerSecond ==
    /\ (last.op = "exponent" /\ Raisable(last.pre_stack)) =>
          RaisedAsStated(Before, [stack |-> stack, vars |-> vars,
                                  status |-> last.status, kind |-> last.kind])
    /\ last.op = "parse" =>
          LET tr == LastTrace
              ts == LastTokens
          IN  \A k \in 1..Len(ts) :
                 (tr[k].status = "ok" /\ ts[k] = <<"^">> /\ Raisable(tr[k].stack)) =>
                    RaisedAsStated(tr[k], tr[k + 1])

\* ------------------------------------------------------------ C14
\* The base on top of s raised to the power below it, a value of u32, is not
\* an isize.
PowerOverflows(s) ==
    /\ Raisable(s)
    /\ PowerIn(s) \in 0..U32Max
    /\ ~PowerOf(BaseOf(s), PowerIn(s), 1).fits

\* C14 as stated: when the mathematical result of ^ does not fit the machine
\* integer, the operator returns an Overflow error to the caller; it neither
\* pushes a wrapped value nor panics.  Stated for a call of exponent and for
\* the ^ token of a parse.
C14_PowerOverflowReported ==
    /\ (last.op = "exponent" /\ PowerOverflows(last.pre_stack)) =>
          /\ last.status = "err"
          /\ last.kind = "Overflow"
          /\ Len(stack) < Len(last.pre_stack) - 1
    /\ last.op = "parse" =>
          LET tr == LastTrace
              ts == LastTokens
          IN  \A k \in 1..Len(ts) :
                 (tr[k].status = "ok" /\ ts[k] = <<"^">> /\ PowerOverflows(tr[k].stack)) =>
                    /\ tr[k + 1].status = "err"
                    /\ tr[k + 1].kind = "Overflow"
                    /\ Len(tr[k + 1].stack) < Len(tr[k].stack) - 1
                    /\ last.status = "err"

\* ------------------------------------------------------------ C15
\* The index of the token at which the last parse stopped with an error, or
\* 0 when no token failed.
FailedAt(tr) ==
    IF \E k \in 1..(Len(tr) - 1) : tr[k].status = "ok" /\ tr[k + 1].status = "err"
    THEN CHOOSE k \in 1..(Len(tr) - 1) : tr[k].status = "ok" /\ tr[k + 1].status = "err"
    ELSE 0

\* The number of values a failing operator has popped off the stack s when
\* it fails: none from an empty stack, one when exchange finds no second
\* value, when the stack holds one value or when the first value is no
\* integer, two otherwise.
FailingPops(s, token) ==
    IF Len(s) = 0 THEN 0
    ELSE IF ToLowercase(token) = <<"x">> \/ Len(s) = 1 \/ ~ParseIsize(s[Len(s)]).ok THEN 1
    ELSE 2

\* C15 as stated: when parse returns an error, the stack and the variable
\* store are exactly what the tokens before the failing one left, and no
\* token after the failing one has had any effect.
C15_StateOfTokensBeforeFailure ==
    (last.op = "parse" /\ last.status = "err") =>
        LET tr == LastTrace
        IN  /\ FailedAt(tr) > 0
            /\ stack = tr[FailedAt(tr)].stack
            /\ vars = tr[FailedAt(tr)].vars
            /\ last.out = tr[FailedAt(tr)].out

\* C15 as amended: parse applies its tokens from left to right and stops at
\* the first one that fails.  When it returns an error, the variable store
\* and the output are what the tokens before the failing one left, the stack
\* is what they left less the values the failing operator had popped before it
\* failed, and no later token has had any effect; in every case the outcome
\* and the state are those of the tokens up to the first failure.
C15_StopsAtFirstFailure ==
    last.op = "parse" =>
        LET tr == LastTrace
            ts == LastTokens
            k == FailedAt(tr)
        IN  /\ last.status = tr[Len(ts) + 1].status
            /\ stack = tr[Len(ts) + 1].stack
            /\ vars = tr[Len(ts) + 1].vars
            /\ last.status = "err" =>
                  /\ k > 0
                  /\ stack = SubSeq(tr[k].stack, 1,
                                    Len(tr[k].stack) - FailingPops(tr[k].stack, ts[k]))
                  /\ vars = tr[k].vars
                  /\ last.out = tr[k].out
                  /\ \A j \in (k + 1)..(Len(ts) + 1) : tr[j] = tr[k + 1]

\* A parse stored 2 under a and then failed in exchange, which had popped the
\* only value: the variable is kept, the value is gone, the error returned.
C15_Witness ==
    /\ last.op = "parse"
    /\ last.status = "err"
    /\ LastTokens = <<<<"2">>, <<"!", "a">>, <<"x">>>>
    /\ last.pre_stack = <<>>
    /\ stack = <<>>
    /\ vars # EmptyVars

\* ------------------------------------------------------------ C16
\* C16 as stated: a numeric token before the final index of the expression
\* is pushed (as its canonical decimal string), even when its text equals the
\* text of the final token; only the token at the final index can be
\* rejected.
C16_PositionalTrailingOperand ==
    last.op = "parse" =>
        LET tr == LastTrace
            ts == LastTokens
        IN  \A k \in 1..(Len(ts) - 1) :
               (tr[k].status = "ok" /\ ParseIsize(ts[k]).ok) =>
                  /\ tr[k + 1].status = "ok"
                  /\ tr[k + 1].stack = Append(tr[k].stack, IntToString(ParseIsize(ts[k]).val))
                  /\ tr[k + 1].vars = tr[k].vars

\* ------------------------------------------------------------ C17
\* C17 as stated: a bare @ token does not fail; parse pushes the empty
\* string and goes on with the next token.
C17_BareRecallPushesEmpty ==
    last.op = "parse" =>
        LET tr == LastTrace
            ts == LastTokens
        IN  \A k \in 1..Len(ts) :
               (tr[k].status = "ok" /\ ts[k] = <<"@">>) =>
                  /\ tr[k + 1].status = "ok"
                  /\ tr[k + 1].stack = Append(tr[k].stack, <<>>)
                  /\ tr[k + 1].vars = tr[k].vars
                  /\ last.status # "panic"

\* ------------------------------------------------------------ C18
IsValueLine(l) == l.label = "Stack"

\* The values of the value lines among the lines out, in the order printed.
ValuesPrinted(out) ==
    [i \in 1..Len(SelectSeq(out, IsValueLine)) |-> SelectSeq(out, IsValueLine)[i].text]

\* s from its last element to its first.
Reversed(s) == [i \in 1..Len(s) |-> s[Len(s) + 1 - i]]

\* What C18 says of a stack_dump that took the machine from before to after
\* and printed the lines out: the entries from the top of the stack to the
\* bottom, nothing at all for an empty stack, and no change of state.
DumpedTopDown(before, after, out) ==
    /\ after.stack = before.stack
    /\ after.vars = before.vars
    /\ ValuesPrinted(out) = Reversed(before.stack)
    /\ Len(before.stack) = 0 => out = <<>>

\* C18 as stated: stack_dump, called or as the ? token of a parse, prints
\* one value line per stack entry from the most recently pushed entry to the
\* oldest, prints nothing when the stack is empty, and leaves the stack and
\* the variable store unchanged.
C18_StackDumpTopToBottom ==
    /\ last.op = "stack_dump" =>
          DumpedTopDown(Before, [stack |-> stack, vars |-> vars], last.out)
    /\ last.op = "parse" =>
          LET tr == LastTrace
              ts == LastTokens
          IN  \A k \in 1..Len(ts) :
                 (tr[k].status = "ok" /\ ts[k] = <<"?">>) =>
                    DumpedTopDown(tr[k], tr[k + 1],
                                  SubSeq(tr[k + 1].out, Len(tr[k].out) + 1, Len(tr[k + 1].out)))

\* ------------------------------------------------------------ an expression in two calls
\* A first call that leaves some state: a push or a parse.
SplitSetup ==
    /\ calls = 0
    /\ \/ \E value \in PushValues : Push(value)
       \/ \E expression \in Expressions : Parse(expression)

\* The parse of the first half of an expression, in the state the first call
\* left.
SplitFirstHalf ==
    /\ calls = 1
    /\ \E expression \in Expressions : Parse(expression)

NextSplit == SplitSetup \/ SplitFirstHalf

SpecSplit == Init /\ [][NextSplit]_allvars

\* ------------------------------------------------------------ C19
\* Second halves of a split expression: token sequences whose last token is
\* not numeric; they use, change or fail on what the first half left.
SecondHalves ==
    {<<<<"2">>, <<"@", "t", "e", "m", "p">>, <<"*">>>>,
     <<<<"+">>>>,
     <<<<"x">>>>,
     <<<<"-", "3">>, <<"-">>>>,
     <<<<"0">>, <<"/">>>>,
     <<<<"!", "a">>>>,
     <<<<"@", "a">>, <<"+">>>>,
     <<<<"2">>, <<"2">>, <<"q">>>>,
     <<<<"?">>, <<"&">>>>,
     <<<<"2">>, <<"!", "a">>, <<"x">>, <<"x">>>>,
     <<<<"9">>, <<"9">>, <<"^">>>>,
     <<<<"3">>, <<"!", "b">>, <<"@", "a">>, <<"^">>>>}

\* The last call was a parse that succeeded on an expression whose last
\* token is not numeric.
FirstHalfParsed ==
    /\ last.op = "parse"
    /\ last.status = "ok"
    /\ Len(LastTokens) > 0
    /\ ~ParseIsize(Top(LastTokens)).ok

\* C19: for any starting state and any token sequences e1 and e2 whose last
\* tokens are not numeric and where parse(e1) succeeds, parse(e1) followed by
\* parse(e2) ends as the single parse of e1 and e2 joined by whitespace does:
\* same outcome (success, the same error or the same panic), same final stack
\* and variable store, and the same lines printed.
C19_SplitAcrossCalls ==
    FirstHalfParsed =>
        \A e2 \in SecondHalves :
            LET split == parse(Self, Join(e2))
                joined == parse(Before, (last.arg \o <<" ">>) \o Join(e2))
            IN  /\ joined.status = split.status
                /\ joined.kind = split.kind
                /\ joined.text = split.text
                /\ joined.stack = split.stack
                /\ joined.vars = split.vars
                /\ joined.out = last.out \o split.out

\* The first half "50 20 + !temp" was parsed in a state left by an earlier
\* call, and the second half "2 @temp *" finds its 70: it leaves 140 on top.
C19_Witness ==
    /\ calls = 2
    /\ FirstHalfParsed
    /\ LastTokens = <<<<"5", "0">>, <<"2", "0">>, <<"+">>, <<"!", "t", "e", "m", "p">>>>
    /\ last.pre_stack # <<>>
    /\ parse(Self, <<"2", " ", "@", "t", "e", "m", "p", " ", "*">>).status = "ok"
    /\ Top(parse(Self, <<"2", " ", "@", "t", "e", "m", "p", " ", "*">>).stack) = <<"1", "4", "0">>

\* ------------------------------------------------------------ an RPNParser used without push
\* The calls of a caller that never pushes text itself: parse, pop, peek and
\* clear.
NextEvaluate ==
    \/ \E expression \in Expressions : Parse(expression)
    \/ Pop
    \/ Peek
    \/ Clear

SpecEvaluate == Init /\ [][NextEvaluate]_allvars

\* ------------------------------------------------------------ C20
\* s is the canonical decimal string of a signed machine integer: an
\* optional minus sign and digits, without a leading zero unless it is "0"
\* itself, without a sign on zero, and in the isize range.
IsCanonical(s) ==
    /\ Len(s) >= 1
    /\ LET body == IF s[1] = "-" THEN Tail(s) ELSE s
       IN  /\ Len(body) >= 1
           /\ \A i \in 1..Len(body) : IsDigit(body[i])
           /\ body[1] = "0" => (Len(body) = 1 /\ s[1] # "-")
    /\ ParseIsize(s).ok

AllCanonical(s, v) ==
    /\ \A i \in 1..Len(s) : IsCanonical(s[i])
    /\ \A name \in DOMAIN v : IsCanonical(v[name])

\* C20: from a new RPNParser and with parse, pop, peek and clear only, every
\* stack entry and every stored variable value is, in every reachable state
\* and after every token of a parse, the canonical decimal string of a signed
\* integer; hence the operands of + - * / always parse: none of them, as a
\* token or called in such a state, fails with a ParseIntError.
C20_CanonicalIntegersOnly ==
    /\ AllCanonical(stack, vars)
    /\ \A m \in {add(Self), subtract(Self), multiply(Self), divide(Self)} :
          m.kind # "ParseIntError"
    /\ last.op = "parse" =>
          LET tr == LastTrace
          IN  \A k \in 1..Len(tr) :
                 /\ AllCanonical(tr[k].stack, tr[k].vars)
                 /\ (k > 1 /\ LastTokens[k - 1] \in {<<"+">>, <<"-">>, <<"*">>, <<"/">>}) =>
                       tr[k].kind # "ParseIntError"

\* A second call parsed "2 !a 3 + @a": a literal, a stored and recalled
\* value and a sum are on the stack and in the variable store.
C20_Witness ==
    /\ calls = 2
    /\ last.op = "parse"
    /\ last.status = "ok"
    /\ LastTokens = <<<<"2">>, <<"!", "a">>, <<"3">>, <<"+">>, <<"@", "a">>>>
    /\ Len(last.pre_stack) = 2
    /\ Len(stack) = 4
    /\ Top(stack) = <<"2">>
    /\ vars # EmptyVars

====
